---- MODULE Spec2Model ----
(***************************************************************************)
(* Model of client/src/bfc/handlers/btc_outbound_handler.rs:               *)
(* BtcOutboundHandler, one task per managed chain, sharing                 *)
(* BootstrapSharedData (bootstrap_states behind a RwLock,                  *)
(* socket_bootstrap_count behind a Mutex, bootstrap_config).               *)
(***************************************************************************)
EXTENDS Integers, Sequences, FiniteSets, TLC

\* ---- bounds ----
NumChains == 2      \* managed chains (one handler each) in the barrier specification
MaxBatch == 3       \* longest event batch in the pipeline specification
MaxBlob == 2        \* psbt byte blobs 0 .. MaxBlob
MaxHeight == 3      \* block numbers and offset heights 0 .. MaxHeight in the range specification

\* ---- program constants ----
U8 == 256           \* socket_bootstrap_count is a u8; len() is cast `as u8`

BootstrapBtcOutbound == "BootstrapBtcOutbound"
NormalStart == "NormalStart"
OtherPhase == "OtherPhase"      \* any BootstrapState this handler does not test for

NoHolder == 0

\* chain identifiers a run can manage
ChainID == 1 .. NumChains

VARIABLES
    system_clients,          \* key set of the BTreeMap<ChainID, EthClient>; one handler per key
    is_native,               \* metadata.is_native of each chain's client
    bootstrap_config,        \* bootstrap_shared_data.bootstrap_config is Some(..)
    bootstrap_states,        \* RwLock<Vec<BootstrapState>>, one entry per chain
    socket_bootstrap_count,  \* Mutex<u8>
    count_owner,             \* holder of the socket_bootstrap_count mutex, or NoHolder
    rw_writer,               \* holder of bootstrap_states' write guard, or NoHolder
    rw_readers,              \* holders of a read guard on bootstrap_states
    pc,                      \* position of each handler task
    events,                  \* the Vec / msg.events the task is streaming over
    cursor,                  \* index of the event the stream has yielded
    is_bootstrap,            \* the is_bootstrap argument of process_confirmed_event
    written,                 \* entries already assigned by the iter_mut() loop
    deliverable,             \* batches the ledger (historic) and the channel (live) can hand
                             \* out in this run
    calls,                   \* calls made while processing the current batch
    replays,                 \* bootstrap() invocations started, per handler
    signals,                 \* increments of socket_bootstrap_count, per handler
    flips,                   \* write guards taken to set the states to NormalStart
    observed,                \* handler has seen is_bootstrap_state_synced_as(NormalStart)
    queried,                 \* handler has issued round_info / filter_block_event
    heights,                 \* block numbers / offset heights the chain can report in this run
    range                    \* latest block, offset and the (from_block, to_block) last queried

vars == <<system_clients, is_native, bootstrap_config, bootstrap_states,
          socket_bootstrap_count, count_owner, rw_writer, rw_readers, pc, events,
          cursor, is_bootstrap, written, deliverable, calls, replays, signals, flips,
          observed, queried, heights, range>>

shared == <<bootstrap_states, socket_bootstrap_count, count_owner, rw_writer, rw_readers,
            written, flips>>
config == <<system_clients, is_native, bootstrap_config, deliverable, heights>>

\* ---- events and the artifact codec ----
Blobs == 0 .. MaxBlob
EventDetails ==
    {[shape |-> "Other", psbt |-> 0], [shape |-> "Undecodable", psbt |-> 0]}
    \cup {[shape |-> "UnsignedPsbtSubmitted", psbt |-> b] : b \in Blobs}

\* ext_events.as_event::<UnsignedPsbtSubmitted>() : Err / Ok(None) / Ok(Some(ev))
as_event(e) ==
    CASE e.shape = "Undecodable" -> "Err"
      [] e.shape = "UnsignedPsbtSubmitted" -> "Some"
      [] OTHER -> "None"

\* Psbt::deserialize(&bytes): blob 0 is malformed, blob b > 0 decodes to artifact 10 + b
Psbt_deserialize(b) ==
    IF b = 0 THEN [ok |-> FALSE, psbt |-> 0] ELSE [ok |-> TRUE, psbt |-> 10 + b]

RECURSIVE SeqsUpTo(_, _)
SeqsUpTo(S, n) ==
    IF n = 0 THEN {<<>>}
    ELSE LET shorter == SeqsUpTo(S, n - 1)
         IN  shorter \cup {Append(s, x) : s \in {t \in shorter : Len(t) = n - 1}, x \in S}

Batches(pool, cap) == SeqsUpTo(pool, cap)

\* ---- pure helpers of the handler ----
Len_u8(clients) == Cardinality(clients) % U8            \* self.system_clients.len() as u8

\* faulty variant: .iter().any(..) in place of .iter().all(..)
is_bootstrap_state_synced_any(states, state) ==
    \E i \in DOMAIN states : states[i] = state

\* .iter().all(|s| *s == state) over the guarded Vec
is_bootstrap_state_synced_as(states, state) ==
    \A i \in DOMAIN states : states[i] = state

\* is_selected_socket(): placeholder policy
is_selected_socket == TRUE

\* `(!self.is_selected_relayer().await) & (!self.is_selected_socket().await)`
not_selected(relayer, socket) == (~relayer) /\ (~socket)

\* faulty variant: the flip is triggered by any count at or past the number of chains
all_tasks_complete_or_more(count, clients) == count >= Len_u8(clients)

\* `*bootstrap_count == self.system_clients.len() as u8`
all_tasks_complete(count, clients) == count = Len_u8(clients)

\* `*bootstrap_count += 1` on a u8
increment(count) == (count + 1) % U8

\* faulty variant: the counter is updated without mutual exclusion
may_lock_unguarded(owner) == TRUE

\* Mutex admission
may_lock(owner) == owner = NoHolder

\* faulty variant: a writer is admitted while read guards are out
may_write_beside_readers(writer, readers) == writer = NoHolder

\* faulty variant: plain subtraction
wrapping_sub(a, b) == a - b

\* latest_block_number.saturating_sub(bootstrap_offset_height) on an unsigned integer
saturating_sub(a, b) == IF a >= b THEN a - b ELSE 0

\* no historical query outstanding
NoRange == [latest |-> 0, offset |-> 0, from |-> 0, to |-> 0]

\* RwLock admission
\* a task suspended in bootstrap_states.write().await; tokio's RwLock is write-preferring:
\* it queues its waiters first-in first-out, so a read() behind a queued writer waits
writer_queued == \E h \in system_clients : pc[h] = "state_wlock"
may_read(writer, queued) == writer = NoHolder /\ ~queued
may_write(writer, readers) == writer = NoHolder /\ readers = {}

\* faulty variant: the read guard outlives the check
drop_read_leaking(readers, h) == readers

\* the read guard is a temporary of is_bootstrap_state_synced_as and drops at its return
drop_read(readers, h) == readers \ {h}

\* `*state = BootstrapState::NormalStart` for the next entry of iter_mut()
assign_next(states, n) == [states EXCEPT ![n + 1] = NormalStart]

\* faulty variant: the catch-up branch of run() never calls bootstrap()
after_first_check_skips(synced) == "check2"

\* faulty variant: the first test of run() is inverted
after_first_check_inverted(synced) == IF synced THEN "check2" ELSE "bootstrap"

\* branch taken by run() after the first and the second phase check
after_first_check(synced) == IF synced THEN "bootstrap" ELSE "check2"
\* faulty variant: the second test of run() is inverted
after_second_check_inverted(synced) == IF synced THEN "check1" ELSE "recv"

after_second_check(synced) == IF synced THEN "recv" ELSE "check1"

\* faulty variant: the detection log is written for bootstrap events only
logs_detection_inverted(boot) == boot

\* `if !is_bootstrap { log::info!(..) }` in the Ok arm
logs_detection(boot) == ~boot

\* faulty variant: the Err arm falls through to the authorization check
after_deserialize_fallthrough(res) == "pce_auth"

\* arm of `match Psbt::deserialize(..)`
after_deserialize(res) == IF res.ok THEN "pce_auth" ELSE "return"

\* faulty variant: the is_none() return is missing
after_as_event_unfiltered(answer) ==
    CASE answer = "Err" -> "panic"
      [] OTHER -> "deserialize"

\* what as_event's answer lets process_confirmed_event do next
after_as_event(answer) ==
    CASE answer = "Err" -> "panic"
      [] answer = "None" -> "return"
      [] OTHER -> "deserialize"

\* faulty variant: the Result of the submission is dropped
after_submit_ignoring(ok) == "return"

\* `.await.unwrap()` on the Result of submit_signed_psbt
after_submit(ok) == IF ok THEN "return" ELSE "panic"

\* faulty variant: the stream drops every other item
stream_next_skipping(cur) == cur + 2

\* stream.next(): the item after position cur
stream_next(cur) == cur + 1

\* `while let Some(..) = stream.next().await`: another item, or the loop is over
stream_pc(evs, cur) == IF cur <= Len(evs) THEN "pce" ELSE "stream_end"

\* what follows the loop: the counter in bootstrap(), the next iteration in run()
after_stream(boot) == IF boot THEN "count_lock" ELSE "check1"

Call(h, op, val) == [at |-> cursor[h], op |-> op, val |-> val]

\* ---- initial states ----
TypeOK ==
    /\ pc \in [system_clients -> {"check1", "check1_rd", "check2", "check2_rd", "bootstrap",
                                  "pce", "pce_auth", "pce_submit", "stream_end",
                                  "count_lock", "count_inc",
                                  "state_wlock", "state_write", "sleep", "recv", "dead"}]
    /\ socket_bootstrap_count \in 0 .. U8 - 1
    /\ count_owner \in system_clients \cup {NoHolder}
    /\ rw_writer \in system_clients \cup {NoHolder}
    /\ rw_readers \subseteq system_clients

InitWith(n, historic, live, blocks) ==
    /\ system_clients = 1 .. n
    /\ deliverable = [historic |-> historic, live |-> live]
    /\ heights = blocks
    \* chain 1 is the native chain, or no chain is; without a bootstrap_config the
    \* nativeness is never read, so that case is started once
    /\ \E native \in {0, 1} : is_native = [c \in 1 .. n |-> c = native]
    /\ bootstrap_config \in BOOLEAN
    /\ bootstrap_config \/ is_native[1]
    /\ bootstrap_states = [i \in 1 .. n |-> OtherPhase]
    /\ socket_bootstrap_count = 0
    /\ count_owner = NoHolder
    /\ rw_writer = NoHolder
    /\ rw_readers = {}
    /\ pc = [h \in 1 .. n |-> "check1"]
    /\ events = [h \in 1 .. n |-> <<>>]
    /\ cursor = [h \in 1 .. n |-> 1]
    /\ is_bootstrap = [h \in 1 .. n |-> FALSE]
    /\ written = 0
    /\ calls = [h \in 1 .. n |-> <<>>]
    /\ replays = [h \in 1 .. n |-> 0]
    /\ signals = [h \in 1 .. n |-> 0]
    /\ flips = 0
    /\ observed = [h \in 1 .. n |-> FALSE]
    /\ queried = [h \in 1 .. n |-> {}]
    /\ range = [h \in 1 .. n |-> NoRange]

\* barrier runs: every chain has a handler, batches of at most one event
BarrierPool == {[shape |-> "Other", psbt |-> 0], [shape |-> "UnsignedPsbtSubmitted", psbt |-> 1]}
Init == InitWith(NumChains, Batches(BarrierPool, 1), Batches(BarrierPool, 1), {0})
\* pipeline runs: one managed chain, every kind of event, longer batches
InitPipeline ==
    InitWith(1, Batches(EventDetails, MaxBatch), Batches(EventDetails, MaxBatch), {0})
\* range runs: one managed chain, every latest block and offset height up to MaxHeight
InitRange ==
    InitWith(1, Batches(BarrierPool, 1), Batches(BarrierPool, 1), 0 .. MaxHeight)
\* scheduling runs: every chain has a handler, the ledger holds one submitted artifact,
\* the channel delivers blocks without target events
InitFair ==
    InitWith(NumChains, {<<[shape |-> "UnsignedPsbtSubmitted", psbt |-> 1]>>}, {<<>>}, {0})

\* ---- run(): phase checks ----
\* is_bootstrap_state_synced_as(BootstrapBtcOutbound): .read().await
FirstCheckRead(h) ==
    /\ h \in system_clients
    /\ pc[h] = "check1"
    /\ may_read(rw_writer, writer_queued)
    /\ rw_readers' = rw_readers \cup {h}
    /\ pc' = [pc EXCEPT ![h] = "check1_rd"]
    /\ UNCHANGED <<config, bootstrap_states, socket_bootstrap_count, count_owner, rw_writer,
                   written, flips, events, cursor, is_bootstrap, calls, replays, signals,
                   observed, queried, range>>

\* .iter().all(..) under the read guard, guard dropped, branch of run()
FirstCheckEval(h) ==
    /\ h \in system_clients
    /\ pc[h] = "check1_rd"
    /\ rw_readers' = drop_read(rw_readers, h)
    /\ pc' = [pc EXCEPT ![h] =
                after_first_check(is_bootstrap_state_synced_as(bootstrap_states,
                                                               BootstrapBtcOutbound))]
    /\ UNCHANGED <<config, bootstrap_states, socket_bootstrap_count, count_owner, rw_writer,
                   written, flips, events, cursor, is_bootstrap, calls, replays, signals,
                   observed, queried, range>>

SecondCheckRead(h) ==
    /\ h \in system_clients
    /\ pc[h] = "check2"
    /\ may_read(rw_writer, writer_queued)
    /\ rw_readers' = rw_readers \cup {h}
    /\ pc' = [pc EXCEPT ![h] = "check2_rd"]
    /\ UNCHANGED <<config, bootstrap_states, socket_bootstrap_count, count_owner, rw_writer,
                   written, flips, events, cursor, is_bootstrap, calls, replays, signals,
                   observed, queried, range>>

SecondCheckEval(h) ==
    /\ h \in system_clients
    /\ pc[h] = "check2_rd"
    /\ rw_readers' = drop_read(rw_readers, h)
    /\ LET synced == is_bootstrap_state_synced_as(bootstrap_states, NormalStart)
       IN  /\ pc' = [pc EXCEPT ![h] = after_second_check(synced)]
           /\ observed' = [observed EXCEPT ![h] = @ \/ synced]
    /\ UNCHANGED <<config, bootstrap_states, socket_bootstrap_count, count_owner, rw_writer,
                   written, flips, events, cursor, is_bootstrap, calls, replays, signals,
                   queried, range>>

\* ---- run(): streaming branch ----
\* self.event_receiver.recv().await.unwrap(), then tokio_stream::iter(msg.events)
Recv(h) ==
    /\ h \in system_clients
    /\ pc[h] = "recv"
    /\ \E msg \in deliverable.live :
          /\ events' = [events EXCEPT ![h] = msg]
          /\ pc' = [pc EXCEPT ![h] = stream_pc(msg, 1)]
    /\ cursor' = [cursor EXCEPT ![h] = 1]
    /\ is_bootstrap' = [is_bootstrap EXCEPT ![h] = FALSE]
    /\ calls' = [calls EXCEPT ![h] = <<>>]
    /\ UNCHANGED <<config, shared, replays, signals, observed, queried, range>>

\* recv() returns Err (channel closed or lagged): unwrap() panics
RecvClosed(h) ==
    /\ h \in system_clients
    /\ pc[h] = "recv"
    /\ pc' = [pc EXCEPT ![h] = "dead"]
    /\ UNCHANGED <<config, shared, events, cursor, is_bootstrap, calls, replays, signals,
                   observed, queried, range>>

\* ---- bootstrap(): get_bootstrap_events() ----
\* faulty variant: without a native chain the handler's own chain is asked
round_info_source_defaulting(h) ==
    IF is_native[h] THEN h
    ELSE IF \E c \in system_clients : is_native[c]
         THEN CHOOSE c \in system_clients : is_native[c]
         ELSE h

\* the chain whose authority contract serves round_info, 0 when there is none
round_info_source(h) ==
    IF is_native[h] THEN h
    ELSE IF \E c \in system_clients : is_native[c]
         THEN CHOOSE c \in system_clients : is_native[c]
         ELSE 0

\* no bootstrap_config: the Vec stays empty and no call is made
GetBootstrapEventsNoConfig(h) ==
    /\ h \in system_clients
    /\ pc[h] = "bootstrap"
    /\ ~bootstrap_config
    /\ events' = [events EXCEPT ![h] = <<>>]
    /\ pc' = [pc EXCEPT ![h] = stream_pc(<<>>, 1)]
    /\ cursor' = [cursor EXCEPT ![h] = 1]
    /\ is_bootstrap' = [is_bootstrap EXCEPT ![h] = TRUE]
    /\ calls' = [calls EXCEPT ![h] = <<>>]
    /\ replays' = [replays EXCEPT ![h] = @ + 1]
    /\ UNCHANGED <<config, shared, signals, observed, queried, range>>

\* round_info, offset height, latest block, filter_block_event(from_block, to_block)
GetBootstrapEvents(h) ==
    /\ h \in system_clients
    /\ pc[h] = "bootstrap"
    /\ bootstrap_config
    /\ round_info_source(h) # 0
    /\ \E found \in deliverable.historic :
          /\ events' = [events EXCEPT ![h] = found]
          /\ pc' = [pc EXCEPT ![h] = stream_pc(found, 1)]
    /\ cursor' = [cursor EXCEPT ![h] = 1]
    /\ is_bootstrap' = [is_bootstrap EXCEPT ![h] = TRUE]
    /\ calls' = [calls EXCEPT ![h] = <<>>]
    /\ replays' = [replays EXCEPT ![h] = @ + 1]
    /\ queried' = [queried EXCEPT ![h] = @ \cup {"round_info", "filter_block_event"}]
    /\ \E latest_block_number \in heights, bootstrap_offset_height \in heights :
          LET from_block == saturating_sub(latest_block_number, bootstrap_offset_height)
              to_block == latest_block_number
          IN  range' = [range EXCEPT ![h] = [latest |-> latest_block_number,
                                             offset |-> bootstrap_offset_height,
                                             from |-> from_block, to |-> to_block]]
    /\ UNCHANGED <<config, shared, signals, observed>>

\* neither this chain nor any managed chain is native: panic!(INVALID_BIFROST_NATIVENESS)
GetBootstrapEventsPanic(h) ==
    /\ h \in system_clients
    /\ pc[h] = "bootstrap"
    /\ bootstrap_config
    /\ round_info_source(h) = 0
    /\ pc' = [pc EXCEPT ![h] = "dead"]
    /\ is_bootstrap' = [is_bootstrap EXCEPT ![h] = TRUE]
    /\ calls' = [calls EXCEPT ![h] = <<>>]
    /\ replays' = [replays EXCEPT ![h] = @ + 1]
    /\ UNCHANGED <<config, shared, events, cursor, signals, observed, queried, range>>

\* ---- process_confirmed_event() ----
\* as_event().unwrap(), the is_none() return, Psbt::deserialize and its Err arm
ProcessMatch(h) ==
    /\ h \in system_clients
    /\ pc[h] = "pce"
    /\ LET e == events[h][cursor[h]]
           step == after_as_event(as_event(e))
           res == Psbt_deserialize(e.psbt)
           arm == after_deserialize(res)
           detected == IF res.ok /\ logs_detection(is_bootstrap[h])
                       THEN <<Call(h, "log_info", e.psbt)>> ELSE <<>>
           reported == IF ~res.ok
                       THEN <<Call(h, "log_error", e.psbt), Call(h, "sentry", e.psbt)>>
                       ELSE <<>>
       IN  CASE step = "panic" ->
                   /\ pc' = [pc EXCEPT ![h] = "dead"]
                   /\ UNCHANGED <<cursor, calls>>
             [] step = "return" ->
                   /\ cursor' = [cursor EXCEPT ![h] = stream_next(@)]
                   /\ pc' = [pc EXCEPT ![h] =
                               stream_pc(events[h], stream_next(cursor[h]))]
                   /\ UNCHANGED calls
             [] OTHER ->
                   /\ calls' = [calls EXCEPT ![h] =
                                  Append(@, Call(h, "deserialize", res)) \o detected \o reported]
                   /\ IF arm = "return"
                      THEN /\ cursor' = [cursor EXCEPT ![h] = stream_next(@)]
                           /\ pc' = [pc EXCEPT ![h] =
                                       stream_pc(events[h], stream_next(cursor[h]))]
                      ELSE /\ pc' = [pc EXCEPT ![h] = arm]
                           /\ UNCHANGED cursor
    /\ UNCHANGED <<config, shared, events, is_bootstrap, replays, signals, observed, queried, range>>

\* is_selected_relayer() (two contract calls), is_selected_socket(), the `&` test
ProcessAuthorize(h) ==
    /\ h \in system_clients
    /\ pc[h] = "pce_auth"
    /\ \E relayer \in BOOLEAN :
          /\ calls' = [calls EXCEPT ![h] =
                         @ \o <<Call(h, "is_selected_relayer", relayer),
                                Call(h, "is_selected_socket", is_selected_socket)>>]
          /\ IF not_selected(relayer, is_selected_socket)
             THEN /\ cursor' = [cursor EXCEPT ![h] = stream_next(@)]
                  /\ pc' = [pc EXCEPT ![h] =
                              stream_pc(events[h], stream_next(cursor[h]))]
             ELSE /\ pc' = [pc EXCEPT ![h] = "pce_submit"]
                  /\ UNCHANGED cursor
    /\ UNCHANGED <<config, shared, events, is_bootstrap, replays, signals, observed, queried, range>>

\* submit_signed_psbt(self address, deserialized_psbt).await.unwrap()
ProcessSubmit(h) ==
    /\ h \in system_clients
    /\ pc[h] = "pce_submit"
    /\ \E ok \in BOOLEAN :
          /\ LET artifact == Psbt_deserialize(events[h][cursor[h]].psbt).psbt
             IN  calls' = [calls EXCEPT ![h] =
                              @ \o <<Call(h, "submit_signed_psbt", <<h, artifact>>),
                                     Call(h, "submit_result", ok)>>]
          /\ IF after_submit(ok) = "return"
             THEN /\ cursor' = [cursor EXCEPT ![h] = stream_next(@)]
                  /\ pc' = [pc EXCEPT ![h] =
                              stream_pc(events[h], stream_next(cursor[h]))]
             ELSE /\ pc' = [pc EXCEPT ![h] = "dead"]
                  /\ UNCHANGED cursor
    /\ UNCHANGED <<config, shared, events, is_bootstrap, replays, signals, observed, queried, range>>

\* stream.next() yields None: the loop ends and the stream with its items is dropped
StreamEnd(h) ==
    /\ h \in system_clients
    /\ pc[h] = "stream_end"
    /\ pc' = [pc EXCEPT ![h] = after_stream(is_bootstrap[h])]
    /\ events' = [events EXCEPT ![h] = <<>>]
    /\ cursor' = [cursor EXCEPT ![h] = 1]
    /\ is_bootstrap' = [is_bootstrap EXCEPT ![h] = FALSE]
    /\ calls' = [calls EXCEPT ![h] = <<>>]
    /\ range' = [range EXCEPT ![h] = NoRange]
    /\ UNCHANGED <<config, shared, replays, signals, observed, queried>>

\* ---- bootstrap(): completion counter and phase flip ----
\* socket_bootstrap_count.lock().await
CountLock(h) ==
    /\ h \in system_clients
    /\ pc[h] = "count_lock"
    /\ may_lock(count_owner)
    /\ count_owner' = h
    /\ pc' = [pc EXCEPT ![h] = "count_inc"]
    /\ UNCHANGED <<config, bootstrap_states, socket_bootstrap_count, rw_writer, rw_readers,
                   written, flips, events, cursor, is_bootstrap, calls, replays, signals,
                   observed, queried, range>>

\* *bootstrap_count += 1; the comparison; when it fails the guard drops at return
CountIncrement(h) ==
    /\ h \in system_clients
    /\ pc[h] = "count_inc"
    /\ socket_bootstrap_count' = increment(socket_bootstrap_count)
    /\ signals' = [signals EXCEPT ![h] = @ + 1]
    /\ IF all_tasks_complete(increment(socket_bootstrap_count), system_clients)
       THEN /\ pc' = [pc EXCEPT ![h] = "state_wlock"]
            /\ UNCHANGED count_owner
       ELSE /\ pc' = [pc EXCEPT ![h] = "sleep"]
            /\ count_owner' = NoHolder
    /\ UNCHANGED <<config, bootstrap_states, rw_writer, rw_readers, written, flips, events,
                   cursor, is_bootstrap, calls, replays, observed, queried, range>>

\* bootstrap_states.write().await
StateWriteLock(h) ==
    /\ h \in system_clients
    /\ pc[h] = "state_wlock"
    /\ may_write(rw_writer, rw_readers)
    /\ rw_writer' = h
    /\ written' = 0
    /\ flips' = flips + 1
    /\ pc' = [pc EXCEPT ![h] = "state_write"]
    /\ UNCHANGED <<config, bootstrap_states, socket_bootstrap_count, count_owner, rw_readers,
                   events, cursor, is_bootstrap, calls, replays, signals, observed, queried, range>>

\* one turn of `for state in bootstrap_guard.iter_mut()`
StateAssign(h) ==
    /\ h \in system_clients
    /\ pc[h] = "state_write"
    /\ written < Len(bootstrap_states)
    /\ bootstrap_states' = assign_next(bootstrap_states, written)
    /\ written' = written + 1
    /\ UNCHANGED <<config, socket_bootstrap_count, count_owner, rw_writer, rw_readers, flips,
                   pc, events, cursor, is_bootstrap, calls, replays, signals, observed,
                   queried, range>>

\* end of the loop: both guards drop, bootstrap() returns into the sleep of run()
StateRelease(h) ==
    /\ h \in system_clients
    /\ pc[h] = "state_write"
    /\ written >= Len(bootstrap_states)
    /\ rw_writer' = NoHolder
    /\ count_owner' = NoHolder
    /\ pc' = [pc EXCEPT ![h] = "sleep"]
    /\ UNCHANGED <<config, bootstrap_states, socket_bootstrap_count, rw_readers, written,
                   flips, events, cursor, is_bootstrap, calls, replays, signals, observed,
                   queried, range>>

\* sleep(call_interval) elapses; next iteration of the loop
Sleep(h) ==
    /\ h \in system_clients
    /\ pc[h] = "sleep"
    /\ pc' = [pc EXCEPT ![h] = "check1"]
    /\ UNCHANGED <<config, shared, events, cursor, is_bootstrap, calls, replays, signals,
                   observed, queried, range>>

\* ---- the rest of the process ----
\* an earlier bootstrap phase, run by other tasks, hands one chain's entry over
PhaseAdvance(i) ==
    /\ i \in DOMAIN bootstrap_states
    /\ bootstrap_states[i] = OtherPhase
    /\ may_write(rw_writer, rw_readers)
    /\ bootstrap_states' = [bootstrap_states EXCEPT ![i] = BootstrapBtcOutbound]
    /\ UNCHANGED <<config, socket_bootstrap_count, count_owner, rw_writer, rw_readers,
                   written, flips, pc, events, cursor, is_bootstrap, calls, replays, signals,
                   observed, queried, range>>

Next ==
    \/ \E h \in ChainID :
          \/ FirstCheckRead(h)
          \/ FirstCheckEval(h)
          \/ SecondCheckRead(h)
          \/ SecondCheckEval(h)
          \/ Recv(h)
          \/ RecvClosed(h)
          \/ GetBootstrapEventsNoConfig(h)
          \/ GetBootstrapEvents(h)
          \/ GetBootstrapEventsPanic(h)
          \/ ProcessMatch(h)
          \/ ProcessAuthorize(h)
          \/ ProcessSubmit(h)
          \/ StreamEnd(h)
          \/ CountLock(h)
          \/ CountIncrement(h)
          \/ StateWriteLock(h)
          \/ StateAssign(h)
          \/ StateRelease(h)
          \/ Sleep(h)
    \/ \E i \in ChainID : PhaseAdvance(i)

Spec == Init /\ [][Next]_vars
SpecPipeline == InitPipeline /\ [][Next]_vars
SpecRange == InitRange /\ [][Next]_vars

\* ---- scheduling ----
\* every step of the task of chain h
HandlerStep(h) ==
    \/ FirstCheckRead(h)
    \/ FirstCheckEval(h)
    \/ SecondCheckRead(h)
    \/ SecondCheckEval(h)
    \/ Recv(h)
    \/ RecvClosed(h)
    \/ GetBootstrapEventsNoConfig(h)
    \/ GetBootstrapEvents(h)
    \/ GetBootstrapEventsPanic(h)
    \/ ProcessMatch(h)
    \/ ProcessAuthorize(h)
    \/ ProcessSubmit(h)
    \/ StreamEnd(h)
    \/ CountLock(h)
    \/ CountIncrement(h)
    \/ StateWriteLock(h)
    \/ StateAssign(h)
    \/ StateRelease(h)
    \/ Sleep(h)

\* the runtime keeps polling every task that can run; tokio's Mutex queues its waiters
\* first-in first-out, so a waiter that can be admitted again and again is admitted
Fairness ==
    \A h \in ChainID :
        /\ WF_vars(HandlerStep(h))
        /\ SF_vars(CountLock(h))

FairSpec == InitFair /\ [][Next]_vars /\ Fairness

\* ---- vocabulary of the properties ----
AllNormalStart == \A i \in DOMAIN bootstrap_states : bootstrap_states[i] = NormalStart
SomeNormalStart == \E i \in DOMAIN bootstrap_states : bootstrap_states[i] = NormalStart
PartlyFlipped == SomeNormalStart /\ ~AllNormalStart
Stepped(h) == pc'[h] # pc[h] \/ cursor'[h] # cursor[h] \/ calls'[h] # calls[h]
CallsIn(log, k, op) == {j \in DOMAIN log : log[j].at = k /\ log[j].op = op}
CallsAt(h, k, op) == CallsIn(calls[h], k, op)
Malformed(e) == as_event(e) = "Some" /\ ~Psbt_deserialize(e.psbt).ok
WellFormed(e) == as_event(e) = "Some" /\ Psbt_deserialize(e.psbt).ok

\* C1: no entry of bootstrap_states is NormalStart and no handler has observed the
\* Streaming phase unless every handler has finished a replay and recorded its signal.
C1_Barrier ==
    (SomeNormalStart \/ \E h \in system_clients : observed[h])
        => \A h \in system_clients : signals[h] >= 1

\* C2: submit_signed_psbt is called for an event only after is_selected_relayer and
\* is_selected_socket both answered true for that event.
C2_AuthorizationGating ==
    \A h \in system_clients : \A j \in DOMAIN calls[h] :
        calls[h][j].op = "submit_signed_psbt"
            => /\ \E i \in CallsAt(h, calls[h][j].at, "is_selected_relayer") : calls[h][i].val
               /\ \E i \in CallsAt(h, calls[h][j].at, "is_selected_socket") : calls[h][i].val

\* C3: a handler runs the bootstrap replay at most once and signals completion at most once.
C3_ReplayOnce ==
    \A h \in system_clients : replays[h] <= 1 /\ signals[h] <= 1

\* C4: the flip is one exclusive write: a partly flipped collection exists only under the
\* write guard, and no phase check holds a read guard on a partly flipped collection.
C4_AtomicFlip ==
    /\ PartlyFlipped => rw_writer # NoHolder
    /\ rw_readers # {} => ~PartlyFlipped

C4_Witness ==
    /\ PartlyFlipped
    /\ \E h \in system_clients : pc[h] \in {"check1", "check2"}

\* C5: socket_bootstrap_count never exceeds the number of managed chains and no step
\* decreases it.
C5_CounterInvariant ==
    [][/\ socket_bootstrap_count' <= Len_u8(system_clients)
       /\ socket_bootstrap_count' >= socket_bootstrap_count]_vars

\* C6: the write that sets the states to NormalStart is taken at most once; a signal
\* recorded once the counter has reached the number of chains starts no flip, kills no
\* task, and finds and leaves the collection all NormalStart.
C6_OneShotFlip ==
    [][/\ flips' <= 1
       /\ (/\ socket_bootstrap_count >= Len_u8(system_clients)
           /\ socket_bootstrap_count' # socket_bootstrap_count)
            => /\ flips' = flips
               /\ AllNormalStart
               /\ bootstrap_states' = bootstrap_states
               /\ \A h \in system_clients :
                     pc[h] = "count_inc" => pc'[h] = "sleep"]_vars

C6_Witness ==
    /\ socket_bootstrap_count > Len_u8(system_clients)
    /\ flips = 1
    /\ AllNormalStart

\* C7: without a bootstrap_config a handler issues no round_info and no
\* filter_block_event query, processes no historical event, and records exactly one
\* completion signal: one when bootstrap() has returned, never more.
C7_NoConfigSkip ==
    ~bootstrap_config =>
        \A h \in system_clients :
            /\ queried[h] = {}
            /\ is_bootstrap[h] => events[h] = <<>> /\ calls[h] = <<>>
            /\ signals[h] <= 1
            /\ pc[h] = "sleep" => signals[h] = 1

\* C8: once every entry is NormalStart no step changes bootstrap_states, and a handler
\* that has observed NormalStart starts no bootstrap replay.
C8_StreamingTerminal ==
    [][/\ AllNormalStart => bootstrap_states' = bootstrap_states
       /\ \A h \in system_clients : observed[h] => replays'[h] = replays[h]]_vars

C8_Witness ==
    /\ AllNormalStart
    /\ \E h \in system_clients : observed[h] /\ pc[h] = "check1_rd"

\* C9: a matching event whose blob fails to decode is logged and reported to sentry,
\* gets no authorization query and no submission, leaves the task alive and at the next
\* event; at the end of the batch every well-formed event for which the relayer was
\* selected has been submitted, whatever malformed events came before it.
C9_DecodeStep ==
    \A h \in system_clients :
        (pc[h] = "pce" /\ Stepped(h) /\ Malformed(events[h][cursor[h]]))
            => /\ pc'[h] = stream_pc(events[h], cursor[h] + 1)
               /\ cursor'[h] = cursor[h] + 1
               /\ CallsIn(calls'[h], cursor[h], "sentry") # {}
               /\ CallsIn(calls'[h], cursor[h], "log_error") # {}
               /\ CallsIn(calls'[h], cursor[h], "is_selected_relayer") = {}
               /\ CallsIn(calls'[h], cursor[h], "submit_signed_psbt") = {}

C9_BatchState ==
    \A h \in system_clients : \A k \in DOMAIN events[h] :
        /\ Malformed(events[h][k])
            => /\ CallsAt(h, k, "is_selected_relayer") = {}
               /\ CallsAt(h, k, "is_selected_socket") = {}
               /\ CallsAt(h, k, "submit_signed_psbt") = {}
               /\ k < cursor[h] => CallsAt(h, k, "sentry") # {}
        /\ (/\ pc[h] = "stream_end"
            /\ WellFormed(events[h][k])
            /\ \E i \in CallsAt(h, k, "is_selected_relayer") : calls[h][i].val)
            => CallsAt(h, k, "submit_signed_psbt") # {}

C9_DecodeFailureIsolation ==
    [][C9_DecodeStep /\ C9_BatchState /\ C9_BatchState']_vars

C9_Witness ==
    \E h \in system_clients :
        /\ pc[h] = "stream_end"
        /\ Len(events[h]) >= 2
        /\ Malformed(events[h][1])
        /\ WellFormed(events[h][2])
        /\ CallsAt(h, 1, "sentry") # {}
        /\ CallsAt(h, 2, "submit_signed_psbt") # {}

\* C10: the calls of a batch come in delivery order, one event at a time; every matching
\* event the stream has passed was decoded, an event of another shape causes no call, and
\* submissions follow the delivery order with at most one per event.
C10_InBatchOrdering ==
    \A h \in system_clients :
        /\ \A j \in DOMAIN calls[h] :
              /\ calls[h][j].at \in DOMAIN events[h]
              /\ calls[h][j].at <= cursor[h]
              /\ as_event(events[h][calls[h][j].at]) = "Some"
              /\ j > 1 => calls[h][j - 1].at <= calls[h][j].at
              /\ \A i \in 1 .. j - 1 :
                    (calls[h][i].op = "submit_signed_psbt"
                        /\ calls[h][j].op = "submit_signed_psbt")
                        => calls[h][i].at < calls[h][j].at
        /\ \A k \in DOMAIN events[h] :
              (k < cursor[h] /\ as_event(events[h][k]) = "Some")
                  => CallsAt(h, k, "deserialize") # {}

C10_Witness ==
    \E h \in system_clients :
        /\ pc[h] = "stream_end"
        /\ Len(events[h]) = 3
        /\ WellFormed(events[h][1])
        /\ as_event(events[h][2]) = "None"
        /\ WellFormed(events[h][3])
        /\ CallsAt(h, 1, "submit_signed_psbt") # {}
        /\ CallsAt(h, 3, "submit_signed_psbt") # {}
        /\ \A i \in CallsAt(h, 1, "submit_signed_psbt") :
              \A j \in CallsAt(h, 3, "deserialize") : i < j

\* C11: the historical query is issued for [max(L - O, 0), L]: to_block is the latest
\* block, from_block is the latest block less the offset, clamped at zero, never negative
\* and never past to_block.
C11_BootstrapRange ==
    \A h \in system_clients :
        LET r == range[h]
            diff == r.latest - r.offset
        IN  /\ r.to = r.latest
            /\ r.from = IF diff > 0 THEN diff ELSE 0
            /\ r.from >= 0
            /\ r.from <= r.to

C11_Witness ==
    \E h \in system_clients :
        /\ "filter_block_event" \in queried[h]
        /\ range[h].latest > 0
        /\ range[h].offset > range[h].latest
        /\ range[h].from = 0
        /\ range[h].to = range[h].latest

\* C12: under fair scheduling, once the catch-up phase has begun and when no handler dies
\* during a bootstrap replay, the states are eventually all NormalStart, flipped once, and
\* every handler eventually waits on its live channel.
NoReplayFailure ==
    \A h \in system_clients : pc[h] = "dead" => observed[h]

CatchUp == \A i \in DOMAIN bootstrap_states : bootstrap_states[i] = BootstrapBtcOutbound

C12_BarrierLiveness ==
    (([]NoReplayFailure) /\ <>CatchUp)
        => <>(AllNormalStart /\ flips = 1 /\ \A h \in system_clients : observed[h])

C12_Witness ==
    /\ AllNormalStart
    /\ flips = 1
    /\ \A h \in system_clients : pc[h] = "recv" /\ observed[h] /\ signals[h] >= 1

\* C13: a handler holds the counter mutex from its increment through the comparison and
\* the flip; no increment happens while another handler is between its increment and the
\* end of its flip; once the counter has reached the number of chains exactly one handler
\* has taken, or is about to take, the write guard for the flip.
InCriticalSection(h) == pc[h] \in {"count_inc", "state_wlock", "state_write"}
Flippers == {h \in system_clients : pc[h] = "state_wlock"}

C13_HoldsMutex ==
    \A h \in system_clients : InCriticalSection(h) => count_owner = h

C13_OneFlipper ==
    IF socket_bootstrap_count >= Len_u8(system_clients)
    THEN flips + Cardinality(Flippers) = 1
    ELSE flips = 0 /\ Flippers = {}

C13_CriticalSection ==
    [][/\ C13_HoldsMutex /\ C13_HoldsMutex'
       /\ C13_OneFlipper /\ C13_OneFlipper'
       /\ socket_bootstrap_count' # socket_bootstrap_count
            => \A h \in system_clients :
                  /\ pc[h] \notin {"state_wlock", "state_write"}
                  /\ pc[h] = "count_inc" => pc'[h] # "count_inc"]_vars

C13_Witness ==
    /\ socket_bootstrap_count = Len_u8(system_clients)
    /\ \E h, g \in system_clients :
          /\ h # g
          /\ pc[h] = "state_write"
          /\ pc[g] = "count_lock"

\* C14: a handler reaches recv() only from a check that saw every entry NormalStart and
\* takes and processes a live batch only while every entry is NormalStart; it enters
\* bootstrap() only from a check that saw every entry BootstrapBtcOutbound, and the
\* historical fetch happens only inside bootstrap().
Processing(h) == pc[h] \in {"pce", "pce_auth", "pce_submit", "stream_end"}

C14_LiveOnlyStreaming ==
    \A h \in system_clients :
        (pc[h] = "recv" \/ (Processing(h) /\ ~is_bootstrap[h]))
            => AllNormalStart /\ observed[h]

C14_PhaseDependentSource ==
    [][/\ C14_LiveOnlyStreaming /\ C14_LiveOnlyStreaming'
       /\ \A h \in system_clients :
             /\ (pc'[h] = "recv" /\ pc[h] # "recv")
                   => pc[h] = "check2_rd" /\ AllNormalStart
             /\ (pc'[h] = "bootstrap" /\ pc[h] # "bootstrap")
                   => pc[h] = "check1_rd" /\ CatchUp
             /\ (replays'[h] # replays[h] \/ queried'[h] # queried[h]
                    \/ (is_bootstrap'[h] /\ ~is_bootstrap[h]))
                   => pc[h] = "bootstrap"]_vars

C14_Witness ==
    /\ AllNormalStart
    /\ \E h \in system_clients :
          /\ pc[h] = "pce"
          /\ ~is_bootstrap[h]
          /\ "filter_block_event" \in queried[h]

\* C15: with a bootstrap_config and no native chain among the managed chains, a handler
\* that enters bootstrap() dies there: it issues no query, processes no event and records
\* no signal, so the counter stays 0 and no entry is ever flipped.
NoReferenceChain == bootstrap_config /\ \A c \in system_clients : ~is_native[c]

C15_NothingDone ==
    /\ socket_bootstrap_count = 0
    /\ flips = 0
    /\ ~SomeNormalStart
    /\ \A h \in system_clients :
          /\ queried[h] = {}
          /\ signals[h] = 0
          /\ events[h] = <<>>
          /\ calls[h] = <<>>
          /\ ~Processing(h)

C15_MissingReferenceFatal ==
    [][NoReferenceChain
          => /\ C15_NothingDone /\ C15_NothingDone'
             /\ \A h \in system_clients :
                   (pc[h] = "bootstrap" /\ pc'[h] # "bootstrap") => pc'[h] = "dead"]_vars

C15_Witness ==
    /\ NoReferenceChain
    /\ \E h \in system_clients : pc[h] = "dead" /\ replays[h] = 1

\* C16: a failed submission and a closed channel kill the task on the spot; a dead task
\* makes no further call, takes no further event, holds no lock and changes neither the
\* counter nor the states; the step that kills it changes nothing that is shared and
\* nothing of the other tasks.
FailedSubmission(log) ==
    log # <<>> /\ log[Len(log)].op = "submit_result" /\ ~log[Len(log)].val

C16_DeadState ==
    \A h \in system_clients :
        /\ \A j \in DOMAIN calls[h] :
              (calls[h][j].op = "submit_result" /\ ~calls[h][j].val)
                  => pc[h] = "dead" /\ j = Len(calls[h])
        /\ pc[h] = "dead" => count_owner # h /\ rw_writer # h /\ h \notin rw_readers

C16_FatalEndsHandler ==
    [][/\ C16_DeadState /\ C16_DeadState'
       /\ \A h \in system_clients :
             /\ (calls'[h] # calls[h] /\ FailedSubmission(calls'[h])) => pc'[h] = "dead"
             /\ (pc[h] = "recv" /\ pc'[h] # "recv")
                   => \/ pc'[h] = "dead"
                      \/ events'[h] \in deliverable.live
             /\ pc[h] = "dead"
                   => /\ pc'[h] = "dead"
                      /\ calls'[h] = calls[h]
                      /\ cursor'[h] = cursor[h]
                      /\ events'[h] = events[h]
                      /\ signals'[h] = signals[h]
                      /\ replays'[h] = replays[h]
             /\ (pc[h] # "dead" /\ pc'[h] = "dead")
                   => /\ shared' = shared
                      /\ \A g \in system_clients \ {h} :
                            /\ pc'[g] = pc[g]
                            /\ calls'[g] = calls[g]
                            /\ events'[g] = events[g]
                            /\ cursor'[g] = cursor[g]]_vars

C16_Witness ==
    \E h, g \in system_clients :
        /\ h # g
        /\ pc[h] = "dead"
        /\ ~is_bootstrap[h]
        /\ FailedSubmission(calls[h])
        /\ pc[g] = "dead"
        /\ observed[g]
        /\ calls[g] = <<>>

\* C17 as claimed: when a handler is done with a live batch, every event of the batch
\* has been passed to process_confirmed_event, and each well-formed event for which the
\* relayer was selected has exactly one submission, from this relayer's address and with
\* the artifact decoded from that event.
Passed(h, k) ==
    \/ k < cursor[h]
    \/ k = cursor[h] /\ pc[h] \in {"pce_auth", "pce_submit", "dead"}

SubmissionsFaithful(h) ==
    \A j \in DOMAIN calls[h] :
        calls[h][j].op = "submit_signed_psbt"
            => /\ calls[h][j].at \in DOMAIN events[h]
               /\ WellFormed(events[h][calls[h][j].at])
               /\ calls[h][j].val
                     = <<h, Psbt_deserialize(events[h][calls[h][j].at].psbt).psbt>>

SelectedSubmittedOnce(h, k) ==
    (/\ WellFormed(events[h][k])
     /\ \E i \in CallsAt(h, k, "is_selected_relayer") : calls[h][i].val
     /\ ~(k = cursor[h] /\ pc[h] = "pce_submit"))
        => Cardinality(CallsAt(h, k, "submit_signed_psbt")) = 1

C17_ExactlyOnce ==
    \A h \in system_clients :
        (~is_bootstrap[h] /\ pc[h] \in {"stream_end", "dead"})
            => /\ \A k \in DOMAIN events[h] : Passed(h, k) /\ SelectedSubmittedOnce(h, k)
               /\ SubmissionsFaithful(h)

\* C17 as amended: the events of a live batch are passed on one by one in order, each at
\* most once, and all of them when the task reaches the end of the batch (a task that
\* dies in the batch leaves the rest unprocessed); every passed matching event is decoded
\* once; each well-formed event for which the relayer was selected gets exactly one
\* submission, every submission is from this relayer's address and carries the artifact
\* decoded from a delivered event.
C17_BatchState ==
    \A h \in system_clients :
        ~is_bootstrap[h]
            => /\ pc[h] = "stream_end" => \A k \in DOMAIN events[h] : Passed(h, k)
               /\ \A k \in DOMAIN events[h] :
                     /\ SelectedSubmittedOnce(h, k)
                     /\ Cardinality(CallsAt(h, k, "submit_signed_psbt")) <= 1
                     /\ Cardinality(CallsAt(h, k, "deserialize"))
                           = IF Passed(h, k) /\ as_event(events[h][k]) = "Some"
                             THEN 1 ELSE 0
               /\ SubmissionsFaithful(h)

C17_ForwardingPerBatch ==
    [][/\ C17_BatchState /\ C17_BatchState'
       /\ \A h \in system_clients :
             (events'[h] = events[h] /\ events[h] # <<>>)
                => cursor'[h] \in {cursor[h], cursor[h] + 1}]_vars

C17_Witness ==
    \E h \in system_clients :
        /\ ~is_bootstrap[h]
        /\ pc[h] = "dead"
        /\ FailedSubmission(calls[h])
        /\ cursor[h] = 2
        /\ Len(events[h]) = 3
        /\ Cardinality(CallsAt(h, 1, "submit_signed_psbt")) = 1
        /\ WellFormed(events[h][3])

\* C18: the calls process_confirmed_event makes for an event, the detection log aside, and
\* its outcome are those computed from the event, the relayer's answer and the result of
\* the submission alone, with is_bootstrap true as with is_bootstrap false; the detection
\* log is written exactly for the well-formed events of a live batch.
PceCalls(e, relayer, ok) ==
    IF after_as_event(as_event(e)) # "deserialize" THEN <<>>
    ELSE IF after_deserialize(Psbt_deserialize(e.psbt)) = "return"
         THEN <<"deserialize", "log_error", "sentry">>
    ELSE IF not_selected(relayer, is_selected_socket)
         THEN <<"deserialize", "is_selected_relayer", "is_selected_socket">>
    ELSE <<"deserialize", "is_selected_relayer", "is_selected_socket",
           "submit_signed_psbt", "submit_result">>

PceOutcome(e, relayer, ok) ==
    IF after_as_event(as_event(e)) = "panic" THEN "fatal"
    ELSE IF after_as_event(as_event(e)) = "return" THEN "ignored"
    ELSE IF after_deserialize(Psbt_deserialize(e.psbt)) = "return" THEN "reported"
    ELSE IF not_selected(relayer, is_selected_socket) THEN "discarded"
    ELSE IF after_submit(ok) = "return" THEN "submitted"
    ELSE "fatal"

CoreOps(h, k) ==
    LET IsCore(c) == c.at = k /\ c.op # "log_info"
        core == SelectSeq(calls[h], IsCore)
    IN  [j \in DOMAIN core |-> core[j].op]

Answer(h, k, op, default) ==
    IF CallsAt(h, k, op) = {} THEN default
    ELSE calls[h][CHOOSE j \in CallsAt(h, k, op) : TRUE].val

Finished(h, k) == k < cursor[h] \/ (k = cursor[h] /\ pc[h] = "dead")

ObservedOutcome(h, k) ==
    IF k = cursor[h] /\ pc[h] = "dead" THEN "fatal"
    ELSE IF CallsAt(h, k, "submit_signed_psbt") # {} THEN "submitted"
    ELSE IF CallsAt(h, k, "is_selected_relayer") # {} THEN "discarded"
    ELSE IF CallsAt(h, k, "sentry") # {} THEN "reported"
    ELSE "ignored"

C18_BootstrapMarkNeutral ==
    \A h \in system_clients : \A k \in DOMAIN events[h] :
        LET e == events[h][k]
            relayer == Answer(h, k, "is_selected_relayer", FALSE)
            ok == Answer(h, k, "submit_result", TRUE)
        IN  /\ Finished(h, k)
                => /\ CoreOps(h, k) = PceCalls(e, relayer, ok)
                   /\ ObservedOutcome(h, k) = PceOutcome(e, relayer, ok)
            /\ CallsAt(h, k, "log_info") # {}
                <=> /\ ~is_bootstrap[h]
                    /\ WellFormed(e)
                    /\ CallsAt(h, k, "deserialize") # {}

C18_Witness ==
    \E h \in system_clients :
        /\ is_bootstrap[h]
        /\ pc[h] = "stream_end"
        /\ Len(events[h]) >= 2
        /\ CallsAt(h, 1, "submit_signed_psbt") # {}
        /\ CallsAt(h, 1, "log_info") = {}
        /\ CallsAt(h, 2, "sentry") # {}

\* C19: the write guard is requested and held only by the holder of the counter mutex, a
\* read guard is held only inside a phase check (never while waiting for the mutex), and
\* as long as a task is alive some live task is not waiting for a lock.
Alive == {h \in system_clients : pc[h] # "dead"}

Blocked(h) ==
    \/ pc[h] = "count_lock" /\ count_owner # NoHolder
    \/ pc[h] = "state_wlock" /\ (rw_writer # NoHolder \/ rw_readers # {})
    \/ pc[h] \in {"check1", "check2"}
          /\ (rw_writer # NoHolder \/ \E g \in system_clients : pc[g] = "state_wlock")

C19_DeadlockFreedom ==
    /\ \A h \in system_clients :
          /\ (pc[h] = "state_wlock" \/ rw_writer = h) => count_owner = h
          /\ h \in rw_readers => pc[h] \in {"check1_rd", "check2_rd"}
          /\ count_owner = h => InCriticalSection(h)
          /\ rw_writer = h => pc[h] = "state_write"
    /\ Alive # {} => \E h \in Alive : ~Blocked(h)

C19_Witness ==
    \E h, g \in system_clients :
        /\ pc[h] = "state_wlock"
        /\ Blocked(h)
        /\ g \in rw_readers

\* C20: a phase check that finds the collection neither all BootstrapBtcOutbound nor all
\* NormalStart falls through to the next check, and the handler's steps of such an
\* iteration change nothing but its read guard and its position; while an entry is still
\* in another bootstrap phase every handler only polls.
ForeignPhase == ~CatchUp /\ ~AllNormalStart
Polling(h) == pc[h] \in {"check1", "check1_rd", "check2", "check2_rd"}

OnlyPolls(h) ==
    /\ bootstrap_states' = bootstrap_states
    /\ socket_bootstrap_count' = socket_bootstrap_count
    /\ count_owner' = count_owner
    /\ flips' = flips
    /\ replays'[h] = replays[h]
    /\ signals'[h] = signals[h]
    /\ queried'[h] = queried[h]
    /\ range'[h] = range[h]
    /\ events'[h] = events[h]
    /\ calls'[h] = calls[h]
    /\ observed'[h] = observed[h]

C20_IdleState ==
    (\E i \in DOMAIN bootstrap_states : bootstrap_states[i] = OtherPhase)
        => /\ socket_bootstrap_count = 0
           /\ flips = 0
           /\ \A h \in system_clients :
                 /\ Polling(h)
                 /\ replays[h] = 0
                 /\ queried[h] = {}
                 /\ events[h] = <<>>
                 /\ calls[h] = <<>>
                 /\ ~observed[h]

C20_IdleInForeignPhases ==
    [][/\ C20_IdleState
       /\ \A h \in system_clients :
             (ForeignPhase /\ Polling(h) /\ pc'[h] # pc[h])
                => /\ OnlyPolls(h)
                   /\ pc[h] = "check1" => pc'[h] = "check1_rd"
                   /\ pc[h] = "check1_rd" => pc'[h] = "check2"
                   /\ pc[h] = "check2" => pc'[h] = "check2_rd"
                   /\ pc[h] = "check2_rd" => pc'[h] = "check1"]_vars

C20_Witness ==
    /\ \E i \in DOMAIN bootstrap_states : bootstrap_states[i] = OtherPhase
    /\ \E i \in DOMAIN bootstrap_states : bootstrap_states[i] = BootstrapBtcOutbound
    /\ \E h \in system_clients : pc[h] = "check2_rd"
====
